---- MODULE Spec2Model ----
(***************************************************************************)
(* State-machine model of ProcessSofastFixed, the orchestrator of the      *)
(* fixed-pattern deflectometry processing                                  *)
(* (opencsp/app/sofast/lib/ProcessSofastFixed.py).                         *)
(*                                                                         *)
(* One instance of the class is modelled.  Its attributes are the          *)
(* variables of the same name.  A process_* call is executed stage by      *)
(* stage (pc names the next stage); the interpreter is single threaded, so *)
(* no other method runs while pc # "idle".  Numerical payloads (images,    *)
(* rotations, slopes) are abstracted to provenance records that name the   *)
(* call, the measurement and the facet index they were computed from.      *)
(* Library calls outside this file (blob detection, mask, geometry         *)
(* solver, slope solver) either return or raise.                           *)
(***************************************************************************)
EXTENDS Integers, Sequences, FiniteSets, TLC

\* ---------------------------------------------------------------- bounds
MaxLen == 3      \* longest input list handed to a process_* call
MaxCalls == 2    \* process_* invocations per behaviour
MaxMeas == 2     \* distinct measurement objects

VARIABLES
    pc,            \* next stage of the running process_* call, or "idle"
    call,          \* arguments, locals and outcome of the latest process_* call
    calls,         \* number of process_* invocations so far
    last_ok,       \* number of the latest process_* call that returned normally
    ok_runs,       \* how many process_* calls have returned normally
    result,        \* outcome of the latest get_optic / _calculate_facet_pointing call
    pre,           \* instance attributes as they were when the latest process_* call began
    measurement,   \* self.measurement
    keep_largest_area,   \* self.params.mask.keep_largest_area
    debug_optic_data,    \* self.params.debug_slope_solver.optic_data
    slot,          \* per attribute: never assigned / holds None / holds a value
    optic_type,
    num_facets,
    data_facet_def,
    data_ensemble_def,
    data_surfaces,
    blob_index,
    data_geometry_general,
    data_image_proccessing_general,
    data_geometry_facet,
    data_image_processing_facet,
    data_error,
    slope_solver,
    data_calculation_facet,
    data_calculation_ensemble,
    geometry       \* operands and results of the latest evaluation of the pose algebra

\* the attribute bag of the instance that the process_* calls write
inst == <<slot, optic_type, num_facets, data_facet_def, data_ensemble_def,
          data_surfaces, blob_index, data_geometry_general,
          data_image_proccessing_general, data_geometry_facet,
          data_image_processing_facet, data_error, slope_solver,
          data_calculation_facet, data_calculation_ensemble>>

\* the attributes that the process_* calls write (self.measurement is
\* written by load_measurement_data only), as a value that can be kept and
\* compared
Snapshot ==
    [slot |-> [a \in DOMAIN slot \ {"measurement"} |-> slot[a]],
     optic_type |-> optic_type, num_facets |-> num_facets,
     data_facet_def |-> data_facet_def, data_ensemble_def |-> data_ensemble_def,
     data_surfaces |-> data_surfaces, blob_index |-> blob_index,
     data_geometry_general |-> data_geometry_general,
     data_image_proccessing_general |-> data_image_proccessing_general,
     data_geometry_facet |-> data_geometry_facet,
     data_image_processing_facet |-> data_image_processing_facet,
     data_error |-> data_error, slope_solver |-> slope_solver,
     data_calculation_facet |-> data_calculation_facet,
     data_calculation_ensemble |-> data_calculation_ensemble]

params == <<keep_largest_area, debug_optic_data>>

ctl == <<pc, call, calls, last_ok, ok_runs, result, pre>>

vars == <<ctl, measurement, params, inst, geometry>>

\* groups of attributes written by one stage
inputs == <<optic_type, num_facets, data_facet_def, data_surfaces>>

geom == <<data_geometry_general, data_image_proccessing_general,
          data_geometry_facet, data_image_processing_facet, data_error>>

slopes == <<slope_solver, data_calculation_facet>>

\* ------------------------------------------------------- attribute slots
AttrNames == {"measurement", "num_facets", "optic_type", "data_facet_def",
              "data_ensemble_def", "data_surfaces", "data_geometry_general",
              "data_image_proccessing_general", "data_geometry_facet",
              "data_image_processing_facet", "data_error",
              "data_calculation_facet", "data_calculation_ensemble",
              "slope_solver", "blob_index"}

\* a bare annotation `self.x: T` creates no attribute: reading it raises
\* AttributeError
HasAttr(a) == slot[a] # "unassigned"

IsNone(a) == slot[a] = "None"

Assign(s, names) == [a \in AttrNames |-> IF a \in names THEN "value" ELSE s[a]]

\* placeholders held by the model variables of attributes without a value
NoRecord == [run |-> 0, meas |-> 0]
NoEnsembleDef == [run |-> 0, num_facets |-> 0]
NoBlobIndex == [run |-> 0, meas |-> 0, seeds |-> 0]
NoOpticData == [run |-> 0, idx |-> 0]

Min(a, b) == IF a < b THEN a ELSE b

\* ------------------------------------------------- vectors and rotations
\* Vxyz, scipy Rotation and TransformXYZ in exact rational arithmetic.  A
\* vector is three integer numerators over one positive denominator d, a
\* rotation is its 3x3 matrix (row major) over one denominator, both in lowest
\* terms, so that equal values are equal records.
Abs(a) == IF a < 0 THEN 0 - a ELSE a

RECURSIVE GCD(_, _)
GCD(a, b) == IF b = 0 THEN a ELSE GCD(b, a % b)

\* gcd of the absolute values of the entries of a sequence
RECURSIVE SeqGCD(_)
SeqGCD(s) == IF s = <<>> THEN 0 ELSE GCD(Abs(Head(s)), SeqGCD(Tail(s)))

\* the vector (x, y, z) / d
Vxyz(x, y, z, d) ==
    LET g == GCD(SeqGCD(<<x, y, z>>), d)
    IN [x |-> x \div g, y |-> y \div g, z |-> z \div g, d |-> d \div g]

\* the rotation with matrix m / d
Rotation(m, d) ==
    LET g == GCD(SeqGCD(m), d)
    IN [m |-> [i \in 1..9 |-> m[i] \div g], d |-> d \div g]

Zero == Vxyz(0, 0, 0, 1)

\* Vxyz((0, 0, 1)): the optical axis of a facet and the ensemble boresight
Boresight == Vxyz(0, 0, 1, 1)

Identity == Rotation(<<1, 0, 0, 0, 1, 0, 0, 0, 1>>, 1)

\* Rotation.from_quat of the quaternion w + xi + yj + zk (any length)
FromQuat(w, x, y, z) ==
    Rotation(<<w*w + x*x - y*y - z*z, 2*(x*y - w*z), 2*(x*z + w*y),
               2*(x*y + w*z), w*w - x*x + y*y - z*z, 2*(y*z - w*x),
               2*(x*z - w*y), 2*(y*z + w*x), w*w - x*x - y*y + z*z>>,
             w*w + x*x + y*y + z*z)

\* u + v and -v
VAdd(u, v) == Vxyz(u.x * v.d + v.x * u.d, u.y * v.d + v.y * u.d,
                   u.z * v.d + v.z * u.d, u.d * v.d)

VNeg(v) == [v EXCEPT !.x = 0 - v.x, !.y = 0 - v.y, !.z = 0 - v.z]

\* v.rotate(r): the matrix of r times v
Rotate(v, r) ==
    Vxyz(r.m[1] * v.x + r.m[2] * v.y + r.m[3] * v.z,
         r.m[4] * v.x + r.m[5] * v.y + r.m[6] * v.z,
         r.m[7] * v.x + r.m[8] * v.y + r.m[9] * v.z, r.d * v.d)

\* a * b of two rotations: b is applied first, then a
RMul(a, b) ==
    Rotation([k \in 1..9 |->
                LET i == (k - 1) \div 3
                    j == (k - 1) % 3
                IN a.m[3*i + 1] * b.m[j + 1] + a.m[3*i + 2] * b.m[j + 4]
                   + a.m[3*i + 3] * b.m[j + 7]],
             a.d * b.d)

\* r.inv(): the transpose
RInv(r) == [r EXCEPT !.m = [k \in 1..9 |-> r.m[3 * ((k - 1) % 3) + (k - 1) \div 3 + 1]]]

\* the integer square root of n, or -1 when n is not a perfect square
\* (bisection between lo and hi)
RECURSIVE SqrtBetween(_, _, _)
SqrtBetween(n, lo, hi) ==
    IF lo > hi THEN 0 - 1
    ELSE LET mid == (lo + hi) \div 2
         IN IF mid * mid = n THEN mid
            ELSE IF mid * mid < n THEN SqrtBetween(n, mid + 1, hi)
            ELSE SqrtBetween(n, lo, mid - 1)

ISqrt(n) == SqrtBetween(n, 0, Min(n, 46340))

\* the numerators of v have a rational length
HasRationalNorm(v) == ISqrt(v.x * v.x + v.y * v.y + v.z * v.z) >= 0

\* v.align_to(Vxyz((0, 0, 1))): the shortest rotation that turns the
\* direction of v onto the boresight (Rodrigues' formula on the normalised
\* vector).  Not defined for the zero vector and for a vector that points
\* opposite to the boresight.
CanAlign(v) ==
    /\ HasRationalNorm(v)
    /\ ISqrt(v.x * v.x + v.y * v.y + v.z * v.z) + v.z > 0

AlignToBoresight(v) ==
    LET n == ISqrt(v.x * v.x + v.y * v.y + v.z * v.z)
        \* cross product (numerators) of v with the boresight: (v.y, -v.x, 0)
        p == v.y
        q == 0 - v.x
        s == n + v.z
        D == n * s
    IN Rotation(<<D - q*q, p*q, s*q,
                  p*q, D - p*p, 0 - s*p,
                  0 - s*q, s*p, D - p*p - q*q>>, D)

\* TransformXYZ: the rigid transform x -> R x + V
FromRV(r, v) == [R |-> r, V |-> v]

FromR(r) == [R |-> r, V |-> Zero]

FromV(v) == [R |-> Identity, V |-> v]

\* a * b of two transforms (product of the homogeneous matrices): b is
\* applied first, then a
TMul(a, b) == [R |-> RMul(a.R, b.R), V |-> VAdd(Rotate(b.V, a.R), a.V)]

\* t.apply(v)
Apply(t, v) == VAdd(Rotate(v, t.R), t.V)

IdentityTransform == FromRV(Identity, Zero)

\* ---------------------------------------------------- provenance records
\* [d.copy() for d in data_facet_def]: the copy of input definition idx
FacetDefCopies(r, n) == [i \in 1..n |-> [run |-> r, idx |-> i - 1]]

\* the caller's surface objects, stored without copying
SurfaceList(r, n) == [i \in 1..n |-> [run |-> r, idx |-> i - 1]]

\* per-facet records returned by the geometry solver
FacetRecords(r, m, n) == [i \in 1..n |-> [run |-> r, meas |-> m, idx |-> i - 1]]

\* ------------------------------------------------------- call bookkeeping
\* the `reference` argument of _calculate_facet_pointing
Average == [kind |-> "str", s |-> "average", n |-> 0]

NoSolver == [run |-> 0, meas |-> 0, idx |-> 0, debug |-> NoOpticData,
             surface |-> NoOpticData]

\* meas and keep: self.measurement and params.mask.keep_largest_area as they
\* were when the call began; configured: the option as the caller last set it
\* (at construction or since) and asked: the same when the call began;
\* trace: the stages the call has executed, in order
NoCall == [op |-> "none", nF |-> 0, nS |-> 0, nP |-> 0, nX |-> 0, nE |-> 0,
           meas |-> 0, keep |-> FALSE, configured |-> FALSE, asked |-> FALSE,
           largest |-> FALSE, warned |-> FALSE, idx |-> 0, solver |-> NoSolver,
           outcome |-> "none", stage |-> "none", realigned |-> FALSE,
           trace |-> <<>>]

\* a stage of the whole optic, and a stage of facet i
Stage(name) == [stage |-> name, facet |-> 0 - 1]

FacetStage(name, i) == [stage |-> name, facet |-> i]

\* the stage that pc names is being executed
Running ==
    IF pc \in {"fit_surface", "solve_slopes"} THEN FacetStage(pc, call.idx)
    ELSE Stage(pc)

\* the call record once the running stage has been executed
Ran == [call EXCEPT !.trace = Append(@, Running)]

\* the record of a call that begins: its input check is its first stage
Begin(op, nF, nS, nE, nP, nX) ==
    [NoCall EXCEPT !.op = op, !.nF = nF, !.nS = nS, !.nE = nE, !.nP = nP, !.nX = nX,
                   !.outcome = "running", !.meas = measurement,
                   !.keep = keep_largest_area,
                   !.configured = call.configured, !.asked = call.configured,
                   !.trace = <<Stage("validate")>>]

NoReturn == [kind |-> "none", facets |-> <<>>, trans |-> <<>>]

NoResult == [op |-> "none", outcome |-> "none", reference |-> Average,
             reset |-> FALSE, ret |-> NoReturn]

\* the running process_* call ends at `stage`: it returns ("ok"), or an
\* exception propagates to the caller; its locals are dropped
Finish(outcome, stage) ==
    /\ pc' = "idle"
    /\ call' = [Ran EXCEPT !.outcome = outcome, !.stage = stage,
                           !.idx = 0, !.solver = NoSolver]
    /\ last_ok' = IF outcome = "ok" THEN calls ELSE last_ok
    /\ ok_runs' = IF outcome = "ok" THEN ok_runs + 1 ELSE ok_runs

\* no evaluation of the pose algebra yet
NoGeometry == [op |-> "none"]

\* ------------------------------------------------------------------ Init
Init ==
    /\ pc = "idle"
    /\ keep_largest_area \in BOOLEAN
    /\ call = [NoCall EXCEPT !.configured = keep_largest_area]
    /\ calls = 0
    /\ last_ok = 0
    /\ ok_runs = 0
    /\ result = NoResult
    /\ measurement = 0
    /\ debug_optic_data = NoOpticData
    /\ slot = [a \in AttrNames |->
                 IF a \in {"num_facets", "optic_type"} THEN "None" ELSE "unassigned"]
    /\ optic_type = "None"
    /\ num_facets = 0
    /\ data_facet_def = <<>>
    /\ data_ensemble_def = NoEnsembleDef
    /\ data_surfaces = <<>>
    /\ blob_index = NoBlobIndex
    /\ data_geometry_general = NoRecord
    /\ data_image_proccessing_general = NoRecord
    /\ data_geometry_facet = <<>>
    /\ data_image_processing_facet = <<>>
    /\ data_error = NoRecord
    /\ slope_solver = <<>>
    /\ data_calculation_facet = <<>>
    /\ data_calculation_ensemble = <<>>
    /\ pre = Snapshot
    /\ geometry = NoGeometry

\* ------------------------------------------------- load_measurement_data
load_measurement_data(m) ==
    /\ pc = "idle"
    /\ UNCHANGED geometry
    /\ measurement # m
    /\ measurement' = m
    /\ slot' = Assign(slot, {"measurement"})
    /\ UNCHANGED <<ctl, params, optic_type, num_facets,
                   data_facet_def, data_ensemble_def, data_surfaces, blob_index,
                   data_geometry_general, data_image_proccessing_general,
                   data_geometry_facet, data_image_processing_facet, data_error,
                   slope_solver, data_calculation_facet, data_calculation_ensemble>>

\* the caller edits self.params.mask.keep_largest_area between calls
set_keep_largest_area(b) ==
    /\ pc = "idle"
    /\ UNCHANGED geometry
    /\ keep_largest_area # b
    /\ keep_largest_area' = b
    /\ call' = [call EXCEPT !.configured = b]
    /\ UNCHANGED <<pc, calls, last_ok, ok_runs, result, pre,
                   measurement, debug_optic_data, inst>>

\* ------------------------------------------------------ input validation
\* a check that lets an empty pt_known through
SinglePtKnownTooMany(nP) == nP > 1

\* `if len(pt_known) != 1:` of process_single_facet_optic
SinglePtKnownInvalid(nP) == nP # 1

\* `if len(data_facet_def) != len(surfaces) != len(pts_known) != len(xys_known):`
\* of process_multi_facet_optic.  Python chains the comparisons:
\* a != b != c != d is (a != b) and (b != c) and (c != d).
MultiLengthsInvalid(nF, nS, nP, nX) == nF # nS /\ nS # nP /\ nP # nX

\* ---------------------------------------------- process_single_facet_optic
\* entry of the call: input check and the four assignments that follow it
process_single_facet_optic(nP) ==
    /\ pc = "idle"
    /\ UNCHANGED geometry
    /\ calls < MaxCalls
    /\ calls' = calls + 1
    /\ pre' = Snapshot
    /\ result' = NoResult
    /\ UNCHANGED <<last_ok, ok_runs>>
    /\ LET c == Begin("single", 1, 1, 0, nP, 1)
       IN IF SinglePtKnownInvalid(nP)
          THEN /\ pc' = "idle"
               /\ call' = [c EXCEPT !.outcome = "ValueError", !.stage = "validate"]
               /\ UNCHANGED <<measurement, params, inst>>
          ELSE /\ optic_type' = "single"
               /\ num_facets' = 1
               /\ data_facet_def' = FacetDefCopies(calls + 1, 1)
               /\ data_surfaces' = SurfaceList(calls + 1, 1)
               /\ slot' = Assign(slot, {"optic_type", "num_facets",
                                        "data_facet_def", "data_surfaces"})
               /\ pc' = "find_blobs"
               /\ call' = c
               /\ UNCHANGED <<measurement, params,
                              data_ensemble_def, blob_index, geom, slopes,
                              data_calculation_ensemble>>

\* ----------------------------------------------- process_multi_facet_optic
\* entry of the call: input check and the five assignments that follow it
process_multi_facet_optic(nF, nS, nE, nP, nX) ==
    /\ pc = "idle"
    /\ UNCHANGED geometry
    /\ calls < MaxCalls
    /\ calls' = calls + 1
    /\ pre' = Snapshot
    /\ result' = NoResult
    /\ UNCHANGED <<last_ok, ok_runs>>
    /\ LET c == Begin("multi", nF, nS, nE, nP, nX)
       IN IF MultiLengthsInvalid(nF, nS, nP, nX)
          THEN /\ pc' = "idle"
               /\ call' = [c EXCEPT !.outcome = "ValueError", !.stage = "validate"]
               /\ UNCHANGED <<measurement, params, inst>>
          ELSE /\ optic_type' = "multi"
               /\ num_facets' = nF
               /\ data_facet_def' = FacetDefCopies(calls + 1, nF)
               /\ data_ensemble_def' = [run |-> calls + 1, num_facets |-> nE]
               /\ data_surfaces' = SurfaceList(calls + 1, nS)
               /\ slot' = Assign(slot, {"optic_type", "num_facets", "data_facet_def",
                                        "data_ensemble_def", "data_surfaces"})
               /\ pc' = "find_blobs"
               /\ call' = c
               /\ UNCHANGED <<measurement, params,
                              blob_index, geom, slopes, data_calculation_ensemble>>

\* ---------------------------------------------------------------- find_blobs
\* `self.blob_index = self.find_blobs(pts_known, xys_known)`: detect the
\* blobs in self.measurement.image, then seed the indexer once per pair of
\* zip(pts_known, xys_known)
find_blobs(ok) ==
    /\ pc = "find_blobs"
    /\ UNCHANGED geometry
    /\ IF ~HasAttr("measurement")
       THEN /\ Finish("AttributeError", "find_blobs")
            /\ UNCHANGED <<calls, result, pre, measurement, params, inst>>
       ELSE IF ok
              THEN /\ blob_index' = [run |-> calls, meas |-> measurement,
                                     seeds |-> Min(call.nP, call.nX)]
                   /\ slot' = Assign(slot, {"blob_index"})
                   /\ pc' = "calculate_mask"
                   /\ call' = Ran
                   /\ UNCHANGED <<calls, last_ok, ok_runs, result, pre, measurement,
                                  params, inputs, data_ensemble_def, geom, slopes,
                                  data_calculation_ensemble>>
              ELSE /\ Finish("Error", "find_blobs")
                   /\ UNCHANGED <<calls, result, pre, measurement, params, inst>>

\* ------------------------------------------------------------ _calculate_mask
\* a conflict test that never matches the optic type
MaskWarnsNever(type, keep) == FALSE

\* first branch of the `if`: the option conflicts with a multi-facet optic
MaskWarns(type, keep) == type = "multi" /\ keep

\* `elif` branch: ip.keep_largest_mask_area is applied to the mask
MaskKeepsLargest(type, keep) == ~MaskWarns(type, keep) /\ keep

_calculate_mask(ok) ==
    /\ pc = "calculate_mask"
    /\ UNCHANGED geometry
    /\ IF ok
         THEN /\ keep_largest_area' =
                    IF MaskWarns(optic_type, keep_largest_area)
                    THEN FALSE ELSE keep_largest_area
              /\ call' = [Ran EXCEPT
                            !.warned = MaskWarns(optic_type, keep_largest_area),
                            !.largest = MaskKeepsLargest(optic_type, keep_largest_area)]
              /\ pc' = "geometry"
              /\ UNCHANGED <<calls, last_ok, ok_runs, result, pre, measurement,
                             debug_optic_data, inst>>
         ELSE /\ Finish("Error", "calculate_mask")
              /\ UNCHANGED <<calls, result, pre, measurement, params, inst>>

\* -------------------------------------- _process_optic_singlefacet_geometry
_process_optic_singlefacet_geometry(ok) ==
    /\ pc = "geometry"
    /\ UNCHANGED geometry
    /\ call.op = "single"
    /\ IF ok
         THEN /\ data_geometry_general' = [run |-> calls, meas |-> measurement]
              /\ data_image_proccessing_general' = [run |-> calls, meas |-> measurement]
              /\ data_geometry_facet' = FacetRecords(calls, measurement, 1)
              /\ data_image_processing_facet' = FacetRecords(calls, measurement, 1)
              /\ data_error' = [run |-> calls, meas |-> measurement]
              /\ slot' = Assign(slot, {"data_geometry_general",
                                       "data_image_proccessing_general",
                                       "data_geometry_facet",
                                       "data_image_processing_facet", "data_error"})
              /\ debug_optic_data' = data_facet_def[1]
              /\ call' = [Ran EXCEPT !.idx = 0]
              /\ pc' = "fit_surface"
              /\ UNCHANGED <<calls, last_ok, ok_runs, result, pre, measurement,
                             keep_largest_area, inputs, data_ensemble_def,
                             blob_index, slopes, data_calculation_ensemble>>
         ELSE /\ Finish("Error", "geometry")
              /\ UNCHANGED <<calls, result, pre, measurement, params, inst>>

\* --------------------------------------- _process_optic_multifacet_geometry
\* the facet index at which the kwargs loop raises IndexError: the first
\* idx_facet that data_ensemble_def.r_facet_ensemble or data_surfaces lacks
\* (num_facets or more: the loop completes)
GeometryLoopStop == Min(data_ensemble_def.num_facets, Len(data_surfaces))

\* params.debug_slope_solver.optic_data when the loop ends: each iteration
\* reads the ensemble definition, then overwrites optic_data, then reads
\* data_surfaces
GeometryLoopDebug ==
    LET k == GeometryLoopStop
    IN IF k >= num_facets THEN data_facet_def[num_facets]
       ELSE IF k >= data_ensemble_def.num_facets
            THEN (IF k = 0 THEN debug_optic_data ELSE data_facet_def[k])
            ELSE data_facet_def[k + 1]

\* includes `self.slope_solver = []` and `self.data_calculation_facet = []`,
\* which process_multi_facet_optic executes when the method returns
_process_optic_multifacet_geometry(ok) ==
    /\ pc = "geometry"
    /\ UNCHANGED geometry
    /\ call.op = "multi"
    /\ IF ok
         THEN /\ data_geometry_general' = [run |-> calls, meas |-> measurement]
              /\ data_image_proccessing_general' = [run |-> calls, meas |-> measurement]
              /\ data_geometry_facet' = FacetRecords(calls, measurement, num_facets)
              /\ data_image_processing_facet' = FacetRecords(calls, measurement, num_facets)
              /\ data_error' = [run |-> calls, meas |-> measurement]
              /\ debug_optic_data' = GeometryLoopDebug
              /\ UNCHANGED <<calls, result, pre, measurement, keep_largest_area,
                             inputs, data_ensemble_def, blob_index,
                             data_calculation_ensemble>>
              /\ IF GeometryLoopStop >= num_facets
                 THEN /\ slope_solver' = <<>>
                      /\ data_calculation_facet' = <<>>
                      /\ slot' = Assign(slot, {"data_geometry_general",
                                               "data_image_proccessing_general",
                                               "data_geometry_facet",
                                               "data_image_processing_facet",
                                               "data_error", "slope_solver",
                                               "data_calculation_facet"})
                      /\ call' = [Ran EXCEPT !.idx = 0]
                      /\ pc' = "fit_surface"
                      /\ UNCHANGED <<last_ok, ok_runs>>
                 ELSE /\ slot' = Assign(slot, {"data_geometry_general",
                                               "data_image_proccessing_general",
                                               "data_geometry_facet",
                                               "data_image_processing_facet",
                                               "data_error"})
                      /\ Finish("IndexError", "geometry")
                      /\ UNCHANGED slopes
         ELSE /\ Finish("Error", "geometry")
              /\ UNCHANGED <<calls, result, pre, measurement, params, inst>>

\* --------------------------------------------------------------- slope solve
\* `slope_solver = SlopeSolver(**kwargs); slope_solver.fit_surface()` for the
\* facet call.idx.  kwargs['debug'] is the one params.debug_slope_solver
\* object, so the solver sees the optic_data that object holds now.
fit_surface(ok) ==
    /\ pc = "fit_surface"
    /\ UNCHANGED geometry
    /\ IF ok
         THEN /\ call' = [Ran EXCEPT !.solver =
                            [run |-> calls, meas |-> measurement, idx |-> call.idx,
                             debug |-> debug_optic_data,
                             surface |-> data_surfaces[call.idx + 1]]]
              /\ pc' = "solve_slopes"
              /\ UNCHANGED <<calls, last_ok, ok_runs, result, pre, measurement, params, inst>>
         ELSE /\ Finish("Error", "fit_surface")
              /\ UNCHANGED <<calls, result, pre, measurement, params, inst>>

\* slope_solver.get_data()
SlopeData(solver) == [run |-> solver.run, meas |-> solver.meas, idx |-> solver.idx]

\* a single-facet store that appends to the list of the previous run
StoreSingleAppends(old, x) == Append(old, x)

\* single facet: `self.slope_solver = [slope_solver]` and
\* `self.data_calculation_facet = [slope_solver.get_data()]`
StoreSingle(old, x) == <<x>>

\* multi facet: `.append(...)` onto the list emptied before the loop
StoreMulti(old, x) == Append(old, x)

\* a loop that ends after the first facet
KwargsLeftNone(idx, n) == FALSE

\* `for kwargs in kwargs_list:` has another entry after that of facet idx
\* (kwargs_list holds one entry per facet)
KwargsLeft(idx, n) == idx + 1 < n

solve_slopes(ok) ==
    /\ pc = "solve_slopes"
    /\ UNCHANGED geometry
    /\ IF ok
         THEN /\ slot' = Assign(slot, {"slope_solver", "data_calculation_facet"})
              /\ UNCHANGED <<calls, result, pre, measurement, params, inputs,
                             data_ensemble_def, blob_index, geom,
                             data_calculation_ensemble>>
              /\ IF call.op = "single"
                 THEN /\ slope_solver' = StoreSingle(slope_solver, call.solver)
                      /\ data_calculation_facet' =
                            StoreSingle(data_calculation_facet, SlopeData(call.solver))
                      /\ Finish("ok", "done")
                 ELSE /\ slope_solver' = StoreMulti(slope_solver, call.solver)
                      /\ data_calculation_facet' =
                            StoreMulti(data_calculation_facet, SlopeData(call.solver))
                      /\ call' = [Ran EXCEPT !.idx = call.idx + 1]
                      /\ pc' = IF KwargsLeft(call.idx, num_facets)
                               THEN "fit_surface" ELSE "facet_pointing"
                      /\ UNCHANGED <<last_ok, ok_runs>>
         ELSE /\ Finish("Error", "solve_slopes")
              /\ UNCHANGED <<calls, result, pre, measurement, params, inst>>

\* ---------------------------------------------------- _calculate_facet_pointing
\* references a caller can pass: 'average', another keyword, a float, and
\* integers inside and on both sides of the valid facet indices
References ==
    {Average, [kind |-> "str", s |-> "median", n |-> 0],
     [kind |-> "float", s |-> "", n |-> 1]}
    \cup {[kind |-> "int", s |-> "", n |-> k] :
             k \in {0 - (MaxLen + 1), 0 - 1, 0, MaxLen - 1, MaxLen}}

\* isinstance(reference, int)
IsInt(reference) == reference.kind = "int"

\* `if (reference != 'average') and not isinstance(reference, int):`
ReferenceTypeInvalid(reference) == reference # Average /\ ~IsInt(reference)

\* `if isinstance(reference, int) and (reference >= self.num_facets):`
ReferenceOutOfRange(reference, n) == IsInt(reference) /\ reference.n >= n

\* What one execution of the method does to the instance:
\* outcome, whether `self.data_calculation_ensemble = []` was executed, and
\* the list the attribute holds when the method ends.
FacetPointing(reference) ==
    LET n == num_facets
        raise(exc) == [outcome |-> exc, reset |-> FALSE, ens |-> <<>>]
        partial(exc) == [outcome |-> exc, reset |-> TRUE, ens |-> <<>>]
    IN IF ~HasAttr("data_calculation_facet") THEN raise("AttributeError")
       ELSE IF IsNone("data_calculation_facet") THEN raise("ValueError")
       ELSE IF ReferenceTypeInvalid(reference) THEN raise("ValueError")
       ELSE IF IsInt(reference) /\ IsNone("num_facets") THEN raise("TypeError")
       ELSE IF ReferenceOutOfRange(reference, n) THEN raise("ValueError")
       ELSE IF IsNone("num_facets") THEN partial("TypeError")
       ELSE IF n > 0 /\ ~HasAttr("data_ensemble_def") THEN partial("AttributeError")
       ELSE IF Min(data_ensemble_def.num_facets, Len(data_calculation_facet)) < n
            THEN partial("IndexError")
       ELSE IF IsInt(reference) /\ reference.n < 0 - n THEN partial("IndexError")
       ELSE [outcome |-> "ok", reset |-> TRUE,
             ens |-> [i \in 1..n |->
                        [run |-> calls, idx |-> i - 1,
                         slope |-> data_calculation_facet[i],
                         ens_def |-> data_ensemble_def.run]]]

\* last statement of process_multi_facet_optic: self._calculate_facet_pointing()
process_multi_facet_pointing ==
    /\ pc = "facet_pointing"
    /\ UNCHANGED geometry
    /\ LET r == FacetPointing(Average)
       IN /\ data_calculation_ensemble' =
                IF r.reset THEN r.ens ELSE data_calculation_ensemble
          /\ slot' = IF r.reset THEN Assign(slot, {"data_calculation_ensemble"}) ELSE slot
          /\ Finish(r.outcome,
                    IF r.outcome = "ok" THEN "done" ELSE "facet_pointing")
    /\ UNCHANGED <<calls, result, pre, measurement, params, inputs,
                   data_ensemble_def, blob_index, geom, slopes>>

\* the method called on its own, with any reference
_calculate_facet_pointing(reference) ==
    /\ pc = "idle"
    /\ UNCHANGED geometry
    /\ LET r == FacetPointing(reference)
       IN /\ data_calculation_ensemble' =
                IF r.reset THEN r.ens ELSE data_calculation_ensemble
          /\ slot' = IF r.reset THEN Assign(slot, {"data_calculation_ensemble"}) ELSE slot
          /\ result' = [NoResult EXCEPT !.op = "_calculate_facet_pointing",
                                        !.outcome = r.outcome,
                                        !.reset = r.reset,
                                        !.reference = reference]
    /\ call' = [call EXCEPT !.realigned = TRUE]
    /\ UNCHANGED <<pc, calls, last_ok, ok_runs, pre, measurement, params, inputs,
                   data_ensemble_def, blob_index, geom, slopes>>

\* ------------------------- _calculate_facet_pointing: the transforms it computes
\* The arithmetic of the method for an ensemble of two facets.  def is one
\* facet's entry of data_ensemble_def (r_facet_ensemble[idx] and
\* v_facet_locations[idx]), t is data_calculation_facet[idx].trans_alignment.

\* placement tilts are steeper than 1/MaxTilt (tangent of the half angle)
MaxTilt == 2

\* rotations about the x and the y axis by the angles with half-angle
\* tangent 1/k and -1/k, and one about an axis oblique to the boresight
Tilts ==
    UNION {{FromQuat(k, 1, 0, 0), FromQuat(k, 0 - 1, 0, 0),
            FromQuat(k, 0, 1, 0), FromQuat(k, 0, 0 - 1, 0)} : k \in 2..MaxTilt}
    \cup {FromQuat(3, 2, 1, 2), FromQuat(3, 0 - 2, 0 - 1, 0 - 2)}

\* a quarter turn about the boresight
QuarterTurn == FromQuat(1, 0, 0, 1)

\* entries of an ensemble definition: a facet at the origin, one turned
\* about the boresight and one canted, both off the origin
Placements ==
    {[R |-> Identity, V |-> Zero],
     [R |-> QuarterTurn, V |-> Vxyz(1, 0, 0, 1)],
     [R |-> FromQuat(MaxTilt + 1, 1, 0, 0), V |-> Vxyz(0, 1, 0, 1)]}

\* alignment transforms a slope solve can return
Alignments ==
    {[R |-> r, V |-> v] : r \in {Identity} \cup Tilts, v \in {Zero, Vxyz(0, 1, 1, 1)}}

\* references handed to the arithmetic: 'average' and the facet indices
\* that pass the checks of the method
PointingReferences ==
    {Average} \cup {[kind |-> "int", s |-> "", n |-> k] : k \in {0 - 1, 0, 1}}

\* `TransformXYZ.from_R_V(r_facet_ensemble[idx], v_facet_locations[idx])`
trans_1(def) == FromRV(def.R, def.V)

\* `TransformXYZ.from_V(-trans_2.V) * TransformXYZ.from_R(trans_2.R.inv())`
trans_2(t) == TMul(FromV(VNeg(t.V)), FromR(RInv(t.R)))

\* `trans_facet_ensemble_list.append(trans_2 * trans_1)`, once per facet
trans_facet_ensemble_list(defs, aligns) ==
    [i \in DOMAIN defs |-> TMul(trans_2(aligns[i]), trans_1(defs[i]))]

\* `Vxyz((0, 0, 1)).rotate(trans.R)`, the column idx of v_pointing_matrix
v_pointing(trans) == Rotate(Boresight, trans.R)

v_pointing_matrix(list) == [i \in DOMAIN list |-> v_pointing(list[i])]

\* v_pointing_matrix.mean(1)
RECURSIVE ColumnSum(_)
ColumnSum(cols) == IF cols = <<>> THEN Zero ELSE VAdd(Head(cols), ColumnSum(Tail(cols)))

ColumnMean(cols) ==
    LET sum == ColumnSum(cols)
    IN Vxyz(sum.x, sum.y, sum.z, sum.d * Len(cols))

\* v_pointing_matrix[:, reference]: a negative index counts from the end
Column(cols, k) == IF k >= 0 THEN cols[k + 1] ELSE cols[Len(cols) + k + 1]

\* a reference that is the first column whatever was asked for
v_pointing_ref_first(reference, cols) == cols[1]

\* `if isinstance(reference, int): ... elif reference == 'average': ...`
v_pointing_ref(reference, cols) ==
    IF IsInt(reference) THEN Column(cols, reference.n) ELSE ColumnMean(cols)

\* `trans_align_pointing * t` for every t of the list
align_pointing(r_align_pointing, list) ==
    [i \in DOMAIN list |-> TMul(FromR(r_align_pointing), list[i])]

\* One evaluation.  The reference direction must have a rational length for
\* the arithmetic to stay exact; when it has no direction the alignment
\* rotation is not a number.
calculate_facet_pointing_transforms(defs, aligns, reference) ==
    /\ pc = "idle"
    /\ geometry.op = "none"
    /\ LET list == trans_facet_ensemble_list(defs, aligns)
           cols == v_pointing_matrix(list)
           ref == v_pointing_ref(reference, cols)
           r_align_pointing == AlignToBoresight(ref)
           aligned == align_pointing(r_align_pointing, list)
       IN /\ HasRationalNorm(ref)
          /\ geometry' =
               [op |-> "pointing", defs |-> defs, aligns |-> aligns,
                reference |-> reference,
                inverse |-> [i \in DOMAIN aligns |-> trans_2(aligns[i])],
                v_pointing_matrix |-> cols,
                defined |-> CanAlign(ref),
                r_align_pointing |-> IF CanAlign(ref) THEN r_align_pointing ELSE Identity,
                trans_facet_ensemble |-> IF CanAlign(ref) THEN aligned ELSE <<>>,
                v_facet_pointing_ensemble |->
                   IF CanAlign(ref)
                   THEN [i \in DOMAIN aligned |-> v_pointing(aligned[i])]
                   ELSE <<>>]
    /\ UNCHANGED <<ctl, measurement, params, inst>>

\* --------------------------------------- geometry stages: the facet poses
\* The arithmetic of one iteration of the loop of
\* _process_optic_multifacet_geometry and of the matching lines of
\* _process_optic_singlefacet_geometry.  r_a_b turns a vector given in the
\* coordinates of a into the coordinates of b; v_a_b_c points from a to b and
\* is given in the coordinates of c.

\* poses of the optic in the camera frame that the geometry solver can return
CamRotations == {Identity} \cup Tilts

CamPositions == {Vxyz(0, 0, 2, 1), Vxyz(1, 0, 2, 1)}

\* self.orientation: r_cam_screen and v_cam_screen_cam
Orientations ==
    {[r_cam_screen |-> r, v_cam_screen_cam |-> v] :
        r \in {Identity, QuarterTurn, FromQuat(0, 1, 0, 0)},
        v \in {Zero, Vxyz(0, 1, 0, 1)}}

\* a composition in the other order: the ensemble turned in the facet frame
rot_facet_cam_swapped(rot_ensemble_cam, rot_facet_ensemble) ==
    RMul(rot_facet_ensemble, rot_ensemble_cam)

\* `rot_facet_cam = rot_ensemble_cam * rot_facet_ensemble`
rot_facet_cam(rot_ensemble_cam, rot_facet_ensemble) ==
    RMul(rot_ensemble_cam, rot_facet_ensemble)

\* `v_ensemble_facet_cam = v_ensemble_facet_ensemble.rotate(rot_ensemble_cam)`
\* and `v_cam_facet_cam = v_cam_ensemble_cam + v_ensemble_facet_cam`
v_cam_facet_cam(v_cam_ensemble_cam, v_ensemble_facet_ensemble, rot_ensemble_cam) ==
    VAdd(v_cam_ensemble_cam, Rotate(v_ensemble_facet_ensemble, rot_ensemble_cam))

\* `rot_cam_facet = rot_facet_cam.inv()`
rot_cam_facet(r_facet_cam) == RInv(r_facet_cam)

\* `rot_facet_screen = r_cam_screen * rot_facet_cam` and
\* `rot_screen_facet = rot_facet_screen.inv()`
rot_screen_facet(orientation, r_facet_cam) ==
    RInv(RMul(orientation.r_cam_screen, r_facet_cam))

\* `v_facet_cam_facet = -v_cam_facet_cam.rotate(rot_cam_facet)`
v_facet_cam_facet(v_cam_facet, r_facet_cam) ==
    VNeg(Rotate(v_cam_facet, rot_cam_facet(r_facet_cam)))

\* `v_cam_screen_facet = v_cam_screen_cam.rotate(rot_cam_facet)` and
\* `v_facet_screen_facet = v_facet_cam_facet + v_cam_screen_facet`
v_facet_screen_facet(orientation, v_cam_facet, r_facet_cam) ==
    VAdd(v_facet_cam_facet(v_cam_facet, r_facet_cam),
         Rotate(orientation.v_cam_screen_cam, rot_cam_facet(r_facet_cam)))

\* the same vectors as _process_optic_singlefacet_geometry computes them from
\* the pose (rot_optic_cam, v_cam_optic_cam) of a single optic
v_optic_cam_optic(v_cam_optic_cam, rot_optic_cam) ==
    VNeg(Rotate(v_cam_optic_cam, RInv(rot_optic_cam)))

v_optic_screen_optic(orientation, v_cam_optic_cam, rot_optic_cam) ==
    VAdd(v_optic_cam_optic(v_cam_optic_cam, rot_optic_cam),
         Rotate(orientation.v_cam_screen_cam, RInv(rot_optic_cam)))

rot_screen_optic(orientation, rot_optic_cam) ==
    RInv(RMul(orientation.r_cam_screen, rot_optic_cam))

\* One evaluation for the facet placed by def in an ensemble whose pose in the
\* camera frame is (rot_ensemble_cam, v_cam_ensemble_cam); `single` holds what
\* the single-facet stage computes for an optic with that same pose.
facet_pose(rot_ensemble_cam, v_cam_ensemble_cam, def, orientation) ==
    /\ pc = "idle"
    /\ geometry.op = "none"
    /\ LET r == rot_facet_cam(rot_ensemble_cam, def.R)
           v == v_cam_facet_cam(v_cam_ensemble_cam, def.V, rot_ensemble_cam)
       IN geometry' =
            [op |-> "pose", rot_ensemble_cam |-> rot_ensemble_cam,
             v_cam_ensemble_cam |-> v_cam_ensemble_cam, def |-> def,
             orientation |-> orientation,
             rot_facet_cam |-> r,
             v_cam_facet_cam |-> v,
             v_optic_cam_optic |-> v_facet_cam_facet(v, r),
             v_optic_screen_optic |-> v_facet_screen_facet(orientation, v, r),
             rot_screen_facet |-> rot_screen_facet(orientation, r),
             single |->
                [v_optic_cam_optic |->
                    v_optic_cam_optic(v_cam_ensemble_cam, rot_ensemble_cam),
                 v_optic_screen_optic |->
                    v_optic_screen_optic(orientation, v_cam_ensemble_cam, rot_ensemble_cam),
                 rot_screen_optic |-> rot_screen_optic(orientation, rot_ensemble_cam)]]
    /\ UNCHANGED <<ctl, measurement, params, inst>>

\* ------------------------------------------------------------------ get_optic
\* first exception of loop iteration idx_facet = i, or "ok"
GetOpticStep(i) ==
    IF ~HasAttr("data_calculation_facet") THEN "AttributeError"
    ELSE IF Len(data_calculation_facet) <= i THEN "IndexError"
    ELSE IF ~HasAttr("data_facet_def") THEN "AttributeError"
    ELSE IF Len(data_facet_def) <= i THEN "IndexError"
    ELSE IF optic_type = "multi" /\ ~HasAttr("data_calculation_ensemble")
         THEN "AttributeError"
    ELSE IF optic_type = "multi" /\ Len(data_calculation_ensemble) <= i
         THEN "IndexError"
    ELSE "ok"

\* `if self.optic_type == 'multi':` of the return statement
ReturnsEnsemble(type, n) == type = "multi"

\* a transform list that reads entry 0 for every facet
TransformListFirst(n) == [i \in 1..n |-> data_calculation_ensemble[1]]

\* trans_list: `self.data_calculation_ensemble[idx_facet].trans_facet_ensemble`
\* appended once per facet
TransformList(n) == [i \in 1..n |-> data_calculation_ensemble[i]]

\* the value returned or the exception raised by get_optic
GetOptic ==
    LET n == num_facets
        bad == {i \in 0 .. n - 1 : GetOpticStep(i) # "ok"}
        first == CHOOSE i \in bad : \A j \in bad : i <= j
        facet(i) == [slope |-> data_calculation_facet[i],
                     shape |-> data_facet_def[i]]
    IN IF IsNone("num_facets") THEN [outcome |-> "TypeError", ret |-> NoReturn]
       ELSE IF bad # {} THEN [outcome |-> GetOpticStep(first), ret |-> NoReturn]
       ELSE IF ReturnsEnsemble(optic_type, n)
            THEN [outcome |-> "ok",
                  ret |-> [kind |-> "ensemble",
                           facets |-> [i \in 1..n |-> facet(i)],
                           trans |-> TransformList(n)]]
       ELSE IF n = 0 THEN [outcome |-> "IndexError", ret |-> NoReturn]
       ELSE [outcome |-> "ok",
             ret |-> [kind |-> "facet", facets |-> <<facet(1)>>, trans |-> <<>>]]

get_optic ==
    /\ pc = "idle"
    /\ UNCHANGED geometry
    /\ result' = [NoResult EXCEPT !.op = "get_optic",
                                  !.outcome = GetOptic.outcome,
                                  !.ret = GetOptic.ret]
    /\ UNCHANGED <<pc, call, calls, last_ok, ok_runs, pre, measurement, params, inst>>

\* --------------------------------------------------------------------- Next
\* Input lists have MaxLen - 1 or MaxLen entries (pt_known: 0..MaxLen); the
\* ensemble definition places as many facets as there are facet definitions.
\* Every library call may raise.
Next ==
    \/ \E m \in 1..MaxMeas : load_measurement_data(m)
    \/ \E b \in BOOLEAN : set_keep_largest_area(b)
    \/ \E nP \in 0..MaxLen : process_single_facet_optic(nP)
    \/ \E nF, nS, nP, nX \in MaxLen - 1 .. MaxLen :
          process_multi_facet_optic(nF, nS, nF, nP, nX)
    \/ \E ok \in BOOLEAN : find_blobs(ok)
    \/ \E ok \in BOOLEAN : _calculate_mask(ok)
    \/ \E ok \in BOOLEAN : _process_optic_singlefacet_geometry(ok)
    \/ \E ok \in BOOLEAN : _process_optic_multifacet_geometry(ok)
    \/ \E ok \in BOOLEAN : fit_surface(ok)
    \/ \E ok \in BOOLEAN : solve_slopes(ok)
    \/ process_multi_facet_pointing
    \/ get_optic

Spec == Init /\ [][Next]_vars

\* The same instance when no library call raises: a call is cut short only
\* by the exceptions this file raises itself or runs into.
NextNominal ==
    \/ \E m \in 1..MaxMeas : load_measurement_data(m)
    \/ \E b \in BOOLEAN : set_keep_largest_area(b)
    \/ \E nP \in 0..MaxLen : process_single_facet_optic(nP)
    \/ \E nF, nS, nP, nX \in MaxLen - 1 .. MaxLen :
          process_multi_facet_optic(nF, nS, nF, nP, nX)
    \/ find_blobs(TRUE)
    \/ _calculate_mask(TRUE)
    \/ _process_optic_singlefacet_geometry(TRUE)
    \/ _process_optic_multifacet_geometry(TRUE)
    \/ fit_surface(TRUE)
    \/ solve_slopes(TRUE)
    \/ process_multi_facet_pointing
    \/ get_optic

SpecNominal == Init /\ [][NextNominal]_vars

\* ... and the caller also runs the ensemble aligner on its own
NextAligner ==
    \/ NextNominal
    \/ \E reference \in References : _calculate_facet_pointing(reference)

SpecAligner == Init /\ [][NextAligner]_vars

\* The arithmetic of the poses on its own, one evaluation per behaviour.
InitGeometry == Init /\ ~keep_largest_area

NextGeometry ==
    \/ \E rot_ensemble_cam \in CamRotations, v_cam_ensemble_cam \in CamPositions,
          def \in Placements, orientation \in Orientations :
          facet_pose(rot_ensemble_cam, v_cam_ensemble_cam, def, orientation)
    \/ \E defs \in [1..2 -> Placements], aligns \in [1..2 -> Alignments],
          reference \in PointingReferences :
          calculate_facet_pointing_transforms(defs, aligns, reference)

SpecGeometry == InitGeometry /\ [][NextGeometry]_vars


\* ======================================================================
\* Properties
\* ======================================================================
AllEqual(a, b, c, d) == a = b /\ b = c /\ c = d

\* the four input lengths of the latest process_multi_facet_optic call differ
MultiMismatch ==
    /\ call.op = "multi"
    /\ ~AllEqual(call.nF, call.nS, call.nP, call.nX)

\* the latest process_* call raised after its input check had passed
AbortedAfterValidation ==
    /\ pc = "idle"
    /\ call.op \in {"single", "multi"}
    /\ call.outcome \notin {"ok", "none", "running"}
    /\ call.stage # "validate"

\* the latest process_* call returned normally and nothing has touched the
\* instance since
AfterSuccessfulRun ==
    /\ pc = "idle"
    /\ call.op \in {"single", "multi"}
    /\ call.outcome = "ok"
    /\ ~call.realigned

\* C1: every process_multi_facet_optic call whose four input lengths are not
\* all equal is rejected with ValueError by the input check, before any
\* processing stage starts.
C1_MismatchRejected ==
    MultiMismatch => (pc = "idle" /\ call.outcome = "ValueError"
                                  /\ call.stage = "validate")

\* C2: when a process_multi_facet_optic call with mismatched input lengths has
\* ended, every instance attribute has the value it had before the call.
C2_MismatchLeavesNoState ==
    (pc = "idle" /\ MultiMismatch /\ ~call.realigned) => Snapshot = pre

\* the slope results the instance holds are those of an earlier, successful
\* run, while the facet definitions are those of the latest call
HoldsEarlierSlopes ==
    /\ last_ok > 0
    /\ last_ok < calls
    /\ HasAttr("data_calculation_facet")
    /\ data_calculation_facet # <<>>
    /\ \A i \in 1..Len(data_calculation_facet) :
          data_calculation_facet[i].run = last_ok
    /\ \A i \in 1..Len(data_facet_def) : data_facet_def[i].run = calls

\* C3: after a process_* call that aborted past its input check, the instance
\* does not hold the aborted call's attributes together with the slope results
\* of an earlier successful run, and get_optic does not return an optic built
\* from those results.
C3_AbortKeepsNoPartialState ==
    (AbortedAfterValidation /\ result.op = "get_optic")
       => ~(HoldsEarlierSlopes /\ result.outcome = "ok")

\* C4: when every process_* call made so far has succeeded, every derived
\* entity the instance holds was produced by the latest call, the ensemble
\* definition and the ensemble solution included.
C4_AllFromLatestRun ==
    (AfterSuccessfulRun /\ ok_runs = calls) =>
       /\ HasAttr("data_ensemble_def") => data_ensemble_def.run = calls
       /\ HasAttr("data_calculation_ensemble") =>
             \A i \in 1..Len(data_calculation_ensemble) :
                data_calculation_ensemble[i].run = calls
       /\ \A i \in 1..Len(data_calculation_facet) :
             data_calculation_facet[i].run = calls

\* record x was computed by the latest call from the measurement it used
Fresh(x) == x.run = calls /\ x.meas = call.meas

\* list l has one entry, computed by the latest call for facet 0
FreshSingleton(l) == Len(l) = 1 /\ Fresh(l[1]) /\ l[1].idx = 0

\* C5: after a successful process_single_facet_optic call, also one that
\* follows an earlier successful single-facet run on another measurement,
\* every per-facet result holds exactly one entry and all of them come from
\* the latest call and its measurement.
C5_SecondRunReplacesAll ==
    (AfterSuccessfulRun /\ call.op = "single") =>
       /\ num_facets = 1
       /\ Len(data_facet_def) = 1 /\ data_facet_def[1].run = calls
       /\ Len(data_surfaces) = 1 /\ data_surfaces[1].run = calls
       /\ blob_index.run = calls /\ blob_index.meas = call.meas
       /\ Fresh(data_geometry_general)
       /\ Fresh(data_image_proccessing_general)
       /\ Fresh(data_error)
       /\ FreshSingleton(data_geometry_facet)
       /\ FreshSingleton(data_image_processing_facet)
       /\ FreshSingleton(slope_solver)
       /\ FreshSingleton(data_calculation_facet)

\* a second successful single-facet run, on another measurement than the
\* successful single-facet run before it
C5_Witness ==
    /\ AfterSuccessfulRun
    /\ call.op = "single"
    /\ pre.optic_type = "single"
    /\ Len(pre.data_calculation_facet) = 1
    /\ pre.data_calculation_facet[1].run = calls - 1
    /\ pre.data_calculation_facet[1].meas # call.meas

\* C6: process_single_facet_optic with a pt_known of length other than 1
\* raises ValueError from its input check and changes no instance attribute.
C6_WrongPointCountRejected ==
    (call.op = "single" /\ call.nP # 1 /\ ~call.realigned) =>
       /\ pc = "idle"
       /\ call.outcome = "ValueError"
       /\ call.stage = "validate"
       /\ Snapshot = pre

\* the call is rejected on an instance that holds the results of a run
C6_Witness ==
    /\ call.op = "single"
    /\ call.nP = 0
    /\ call.outcome = "ValueError"
    /\ last_ok > 0
    /\ HasAttr("data_calculation_facet")

\* the reference is an integer outside 0..n-1, or neither an integer nor
\* 'average'
ReferenceInvalid(reference, n) ==
    \/ IsInt(reference) /\ (reference.n < 0 \/ reference.n >= n)
    \/ ~IsInt(reference) /\ reference # Average

\* C7: on an instance that holds the slopes of a successful multi-facet run,
\* _calculate_facet_pointing raises ValueError for every invalid reference and
\* neither resets nor stores the ensemble solution.
C7_InvalidReferenceRejected ==
    (/\ result.op = "_calculate_facet_pointing"
     /\ call.op = "multi"
     /\ call.outcome = "ok"
     /\ ReferenceInvalid(result.reference, num_facets))
       => (result.outcome = "ValueError" /\ ~result.reset)

\* C8: _calculate_facet_pointing on a freshly constructed instance raises
\* ValueError.
C8_UnsolvedSlopesRejected ==
    (result.op = "_calculate_facet_pointing" /\ calls = 0)
       => result.outcome = "ValueError"

\* the latest call has executed _calculate_mask
MaskBuilt ==
    \/ pc \in {"geometry", "fit_surface", "solve_slopes", "facet_pointing"}
    \/ /\ pc = "idle"
       /\ call.stage \in {"geometry", "fit_surface", "solve_slopes",
                          "facet_pointing", "done"}

\* C9: a multi-facet run started with keep_largest_area true is not stopped by
\* the mask stage: it logs a warning, does not apply the largest-area filter
\* and has the option false for the rest of the run; a single-facet run
\* started with the option true applies the filter and logs no warning.
C9_KeepLargestAreaConflict ==
    /\ (call.op = "multi" /\ call.keep /\ call.outcome # "running") =>
          call.stage # "calculate_mask"
    /\ (MaskBuilt /\ call.op = "multi" /\ call.keep) =>
          /\ call.warned
          /\ ~call.largest
          /\ pc # "idle" => ~keep_largest_area
    /\ (MaskBuilt /\ call.op = "single" /\ call.keep) =>
          /\ call.largest
          /\ ~call.warned
          /\ pc # "idle" => keep_largest_area

\* a multi-facet run started with the option true has run to its end
C9_Witness ==
    /\ pc = "idle"
    /\ call.op = "multi"
    /\ call.keep
    /\ call.warned
    /\ call.outcome = "ok"

\* C10: get_optic after a successful run returns a single facet exactly when
\* that run was process_single_facet_optic, and otherwise an ensemble of
\* num_facets facets in facet order with num_facets transforms, the i-th being
\* the one this run stored in data_calculation_ensemble[i].
C10_GetOpticMatchesRun ==
    (AfterSuccessfulRun /\ result.op = "get_optic") =>
       LET ret == result.ret
       IN /\ result.outcome = "ok"
          /\ ret.kind = "facet" <=> call.op = "single"
          /\ ret.kind = "ensemble" <=> call.op = "multi"
          /\ \A i \in 1..Len(ret.facets) :
                /\ ret.facets[i].slope.run = calls
                /\ ret.facets[i].slope.idx = i - 1
                /\ ret.facets[i].shape = [run |-> calls, idx |-> i - 1]
          /\ call.op = "single" => Len(ret.facets) = 1
          /\ call.op = "multi" =>
                /\ Len(ret.facets) = num_facets
                /\ Len(ret.trans) = num_facets
                /\ num_facets = call.nF
                /\ \A i \in 1..num_facets :
                      /\ ret.trans[i] = data_calculation_ensemble[i]
                      /\ ret.trans[i].run = calls
                      /\ ret.trans[i].idx = i - 1
                      /\ ret.trans[i].slope = ret.facets[i].slope

\* an ensemble is returned after a multi-facet run that followed another run
C10_Witness ==
    /\ AfterSuccessfulRun
    /\ call.op = "multi"
    /\ calls > 1
    /\ result.op = "get_optic"
    /\ result.ret.kind = "ensemble"
    /\ Len(result.ret.trans) = MaxLen

\* the two pointing directions are those of the boresight tilted by a rotation
\* of Tilts and by its inverse: opposite angles about one axis
OppositeTilts(va, vb) ==
    \E q \in Tilts : va = Rotate(Boresight, q) /\ vb = Rotate(Boresight, RInv(q))

\* vb is va turned half way round the boresight
MirrorAboutBoresight(va, vb) ==
    /\ va.d = vb.d
    /\ vb.x = 0 - va.x
    /\ vb.y = 0 - va.y
    /\ vb.z = va.z

AlongBoresight(v) == v.x = 0 /\ v.y = 0 /\ v.z > 0

\* C11: with reference 'average' and two facets whose pointing vectors before
\* the correction are the boresight tilted by opposite angles about one axis,
\* the pointing vectors after the correction are mirror images of each other
\* about the boresight and their average points along the boresight.
C11_AverageMakesTiltsSymmetric ==
    (/\ geometry.op = "pointing"
     /\ geometry.reference = Average
     /\ OppositeTilts(geometry.v_pointing_matrix[1], geometry.v_pointing_matrix[2]))
       => /\ geometry.defined
          /\ MirrorAboutBoresight(geometry.v_facet_pointing_ensemble[1],
                                  geometry.v_facet_pointing_ensemble[2])
          /\ AlongBoresight(ColumnMean(geometry.v_facet_pointing_ensemble))

\* opposite tilts about an axis oblique to the boresight: the correction is a
\* proper rotation and the facets differ
C11_Witness ==
    /\ geometry.op = "pointing"
    /\ geometry.reference = Average
    /\ OppositeTilts(geometry.v_pointing_matrix[1], geometry.v_pointing_matrix[2])
    /\ geometry.v_pointing_matrix[1] # geometry.v_pointing_matrix[2]
    /\ geometry.r_align_pointing # Identity
    /\ geometry.v_facet_pointing_ensemble[1] # Boresight

\* C14: the transform computed as the inverse of a facet's alignment transform
\* composed with that alignment transform, in either order, is the identity
\* transform.
C14_InverseOfAlignment ==
    geometry.op = "pointing" =>
       \A i \in DOMAIN geometry.aligns :
          /\ TMul(geometry.inverse[i], geometry.aligns[i]) = IdentityTransform
          /\ TMul(geometry.aligns[i], geometry.inverse[i]) = IdentityTransform

\* the unit vectors of the three axes
Axes == {Vxyz(1, 0, 0, 1), Vxyz(0, 1, 0, 1), Vxyz(0, 0, 1, 1)}

\* C15: for the facet placed by def, turning a facet-frame vector by the
\* facet-to-camera rotation is turning it by def's rotation and then by the
\* ensemble-to-camera rotation; the camera-to-facet position is the
\* camera-to-ensemble position plus def's location turned into camera
\* coordinates; the facet-to-camera and facet-to-screen vectors handed to the
\* slope solver, turned back into camera coordinates, are the camera-to-facet
\* position reversed and the same plus the camera-to-screen vector; and a facet
\* with identity rotation and zero location has the pose of the ensemble and
\* the slope-solver vectors of a single optic with that pose.
C15_FacetPoseComposes ==
    geometry.op = "pose" =>
       LET g == geometry
       IN /\ \A e \in Axes :
                Rotate(e, g.rot_facet_cam)
                   = Rotate(Rotate(e, g.def.R), g.rot_ensemble_cam)
          /\ g.v_cam_facet_cam
                = VAdd(g.v_cam_ensemble_cam, Rotate(g.def.V, g.rot_ensemble_cam))
          /\ Rotate(g.v_optic_cam_optic, g.rot_facet_cam) = VNeg(g.v_cam_facet_cam)
          /\ Rotate(g.v_optic_screen_optic, g.rot_facet_cam)
                = VAdd(VNeg(g.v_cam_facet_cam), g.orientation.v_cam_screen_cam)
          /\ \A e \in Axes :
                Rotate(Rotate(Rotate(e, g.rot_screen_facet), g.rot_facet_cam),
                       g.orientation.r_cam_screen) = e
          /\ (g.def.R = Identity /\ g.def.V = Zero) =>
                /\ g.rot_facet_cam = g.rot_ensemble_cam
                /\ g.v_cam_facet_cam = g.v_cam_ensemble_cam
                /\ g.v_optic_cam_optic = g.single.v_optic_cam_optic
                /\ g.v_optic_screen_optic = g.single.v_optic_screen_optic
                /\ g.rot_screen_facet = g.single.rot_screen_optic

\* a facet turned and displaced in an ensemble that is itself tilted: the two
\* rotations do not commute
C15_Witness ==
    /\ geometry.op = "pose"
    /\ geometry.def.V # Zero
    /\ RMul(geometry.rot_ensemble_cam, geometry.def.R)
          # RMul(geometry.def.R, geometry.rot_ensemble_cam)
    /\ geometry.orientation.v_cam_screen_cam # Zero

\* C12: after a successful process_multi_facet_optic call the facet
\* definitions, the surfaces, the slope solvers, the slope solutions and the
\* ensemble solutions all number num_facets, and the feature indexer was
\* seeded num_facets times.
C12_CountsAgree ==
    (AfterSuccessfulRun /\ call.op = "multi") =>
       /\ Len(data_facet_def) = num_facets
       /\ Len(data_surfaces) = num_facets
       /\ Len(slope_solver) = num_facets
       /\ Len(data_calculation_facet) = num_facets
       /\ Len(data_calculation_ensemble) = num_facets
       /\ blob_index.seeds = num_facets

\* fit_surface and solve_slopes of facet 0, then of facet 1, ... of n facets
SlopeStages(n) ==
    [k \in 1 .. 2 * n |->
        FacetStage(IF k % 2 = 1 THEN "fit_surface" ELSE "solve_slopes", (k - 1) \div 2)]

\* the stages of a complete call, in order
StageOrder(op, n) ==
    <<Stage("validate"), Stage("find_blobs"), Stage("calculate_mask"),
      Stage("geometry")>>
    \o SlopeStages(n)
    \o (IF op = "multi" THEN <<Stage("facet_pointing")>> ELSE <<>>)

IsPrefix(s, t) == Len(s) <= Len(t) /\ \A i \in 1..Len(s) : s[i] = t[i]

\* C13: the stages a process_* call has executed are always a prefix of:
\* input validation, blob detection and indexing, mask, geometry, then for
\* each facet in index order fit_surface followed by solve_slopes, and, for a
\* multi-facet call only, the ensemble alignment last; a call that returns
\* has executed exactly these.
C13_StagesInOrder ==
    call.op \in {"single", "multi"} =>
       LET order == StageOrder(call.op, IF call.op = "single" THEN 1 ELSE call.nF)
       IN /\ IsPrefix(call.trace, order)
          /\ call.outcome = "ok" => call.trace = order
          /\ pc # "idle" => Running = order[Len(call.trace) + 1]

\* a multi-facet call over MaxLen facets has returned
C13_Witness ==
    /\ pc = "idle"
    /\ call.op = "multi"
    /\ call.outcome = "ok"
    /\ call.nF = MaxLen
    /\ Len(call.trace) = 2 * MaxLen + 5

\* C16: in a sequence of runs that all returned so far, a single-facet run
\* applies the largest-area filter to its mask exactly when keep_largest_area
\* was true as the caller last left it (at construction, or by setting it
\* before the runs that followed), also when a multi-facet run came in between.
C16_CorrectionIsLocal ==
    (call.op = "single" /\ MaskBuilt /\ ok_runs >= calls - 1) =>
       (call.largest <=> call.asked)

\* C17: in a multi-facet run, the debug record that the slope solver of facet
\* i holds when it has been constructed and fitted has facet i's own
\* definition as optic_data.
C17_DebugIsOwnFacet ==
    (call.op = "multi" /\ pc = "solve_slopes" /\ num_facets >= 2) =>
       call.solver.debug = data_facet_def[call.solver.idx + 1]

====
